---------------------------- MODULE Spec2Model ----------------------------
(***************************************************************************)
(* Phishing-URL classifier: the URL feature extractor                      *)
(* (extract_features.py) and the Flask prediction service (app.py).        *)
(*                                                                         *)
(* A Python str is a sequence of one-character strings, a dict is a        *)
(* sequence of <<key, value>> pairs in insertion order, a float ratio n/d  *)
(* is the pair <<n, d>>, a probability is an integer number of hundredths. *)
(***************************************************************************)
EXTENDS Integers, Sequences, FiniteSets, TLC

\* ------------------------------------------------------------------------
\* Bounds of the model
\* ------------------------------------------------------------------------
MaxTail == 2
MaxUrls == 2
MaxHist == 1
MaxReq == 2
MaxRestarts == 1

\* ------------------------------------------------------------------------
\* str primitives
\* ------------------------------------------------------------------------
Digits == {"0", "1", "2", "3", "4", "5", "6", "7", "8", "9"}

LowerSeq == <<"a", "b", "c", "d", "e", "f", "g", "h", "i", "j", "k", "l", "m", "n", "o", "p", "q", "r", "s", "t", "u", "v", "w", "x", "y", "z">>

UpperSeq == <<"A", "B", "C", "D", "E", "F", "G", "H", "I", "J", "K", "L", "M", "N", "O", "P", "Q", "R", "S", "T", "U", "V", "W", "X", "Y", "Z">>

Range(s) == {s[i] : i \in DOMAIN s}

Letters == Range(LowerSeq) \cup Range(UpperSeq)

IsDigit(c) == c \in Digits

IsAlnum(c) == c \in Letters \cup Digits

SetMax(S) == CHOOSE x \in S : \A y \in S : y <= x

SetMin(S) == CHOOSE x \in S : \A y \in S : x <= y

\* str.lower() on one character
LowerChar(c) ==
    IF \E i \in DOMAIN UpperSeq : UpperSeq[i] = c
    THEN LowerSeq[CHOOSE i \in DOMAIN UpperSeq : UpperSeq[i] = c]
    ELSE c

\* str.lower()
Lower(s) == [i \in DOMAIN s |-> LowerChar(s[i])]

\* s[i:] with a 1-based i
Tail_(s, i) == SubSeq(s, i, Len(s))

\* str.count(c) for a single character
Count(s, c) == Cardinality({i \in DOMAIN s : s[i] = c})

\* str.count(pat): non-overlapping occurrences, left to right
RECURSIVE CountFrom(_, _, _)
CountFrom(s, pat, i) ==
    IF i + Len(pat) - 1 > Len(s) THEN 0
    ELSE IF SubSeq(s, i, i + Len(pat) - 1) = pat
         THEN 1 + CountFrom(s, pat, i + Len(pat))
         ELSE CountFrom(s, pat, i + 1)

CountSub(s, pat) == CountFrom(s, pat, 1)

\* pat in s
Contains(s, pat) ==
    \E i \in 1..(Len(s) - Len(pat) + 1) : SubSeq(s, i, i + Len(pat) - 1) = pat

StartsWith(s, pat) == Len(s) >= Len(pat) /\ SubSeq(s, 1, Len(pat)) = pat

EndsWith(s, pat) ==
    Len(s) >= Len(pat) /\ SubSeq(s, Len(s) - Len(pat) + 1, Len(s)) = pat

\* str.find over a set of characters from position i: the first position,
\* or Len(s) + 1 when there is none
FindAny(s, chars, i) ==
    IF \E k \in i..Len(s) : s[k] \in chars
    THEN SetMin({k \in i..Len(s) : s[k] \in chars})
    ELSE Len(s) + 1

\* int(port) for a string of decimal digits
RECURSIVE ToInt(_)
ToInt(s) ==
    IF s = <<>> THEN 0
    ELSE 10 * ToInt(SubSeq(s, 1, Len(s) - 1))
         + (CHOOSE d \in 0..9 : <<"0", "1", "2", "3", "4", "5", "6", "7", "8", "9">>[d + 1] = s[Len(s)])

\* n / d if d > 0 else 0, as the pair <<numerator, denominator>>
Ratio(n, d) == IF d > 0 THEN <<n, d>> ELSE <<0, 1>>

Bit(b) == IF b THEN 1 ELSE 0

\* ------------------------------------------------------------------------
\* urllib.parse.urlparse as extract_url_features uses it
\* ------------------------------------------------------------------------
SchemeChars == Letters \cup Digits \cup {"+", "-", "."}

\* urlparse(url): scheme, netloc, path, query, fragment, or ValueError
\* ("Invalid IPv6 URL") when the brackets of the netloc do not pair up.
\* The inputs carry no ';', so the path has no parameters to split off.
UrlParse(url) ==
    LET i == FindAny(url, {":"}, 1)
        hasScheme == /\ i > 1
                     /\ i <= Len(url)
                     /\ url[1] \in Letters
                     /\ \A k \in 1..(i - 1) : url[k] \in SchemeChars
        scheme == IF hasScheme THEN Lower(SubSeq(url, 1, i - 1)) ELSE <<>>
        rest == IF hasScheme THEN Tail_(url, i + 1) ELSE url
        hasNetloc == StartsWith(rest, <<"/", "/">>)
        delim == FindAny(rest, {"/", "?", "#"}, 3)
        netloc == IF hasNetloc THEN SubSeq(rest, 3, delim - 1) ELSE <<>>
        rest2 == IF hasNetloc THEN Tail_(rest, delim) ELSE rest
        h == FindAny(rest2, {"#"}, 1)
        fragment == Tail_(rest2, h + 1)
        rest3 == SubSeq(rest2, 1, h - 1)
        q == FindAny(rest3, {"?"}, 1)
        query == Tail_(rest3, q + 1)
        path == SubSeq(rest3, 1, q - 1)
    IN  [raises |-> hasNetloc /\ (("[" \in Range(netloc)) # ("]" \in Range(netloc))),
         scheme |-> scheme, netloc |-> netloc, path |-> path,
         query |-> query, fragment |-> fragment]

\* The text after the ':' of the host part of a netloc ("" when there is none)
PortText(netloc) ==
    LET at == IF "@" \in Range(netloc)
              THEN SetMax({k \in DOMAIN netloc : netloc[k] = "@"}) ELSE 0
        hostinfo == Tail_(netloc, at + 1)
        ob == FindAny(hostinfo, {"["}, 1)
        bracketed == Tail_(hostinfo, ob + 1)
        cb == FindAny(bracketed, {"]"}, 1)
        afterHost == IF ob <= Len(hostinfo) THEN Tail_(bracketed, cb + 1)
                     ELSE hostinfo
        colon == FindAny(afterHost, {":"}, 1)
    IN  Tail_(afterHost, colon + 1)

\* parsed.port raises ValueError: not a decimal number, or not in 0..65535
PortRaises(netloc) ==
    LET port == PortText(netloc)
    IN  /\ port # <<>>
        /\ \/ \E k \in DOMAIN port : ~IsDigit(port[k])
           \/ ToInt(port) > 65535

\* parsed.port when it does not raise; None is 0 here, as the code only
\* tests its truth value
PortValue(netloc) ==
    IF PortText(netloc) = <<>> THEN 0 ELSE ToInt(PortText(netloc))

\* ------------------------------------------------------------------------
\* tldextract.extract(url): subdomain, domain, suffix.  The public suffix
\* list is cut down to the suffixes the inputs use.
\* ------------------------------------------------------------------------
PublicSuffixes == {<<"c", "o", "m">>, <<"t", "k">>}

\* IP_PATTERN.match: four groups of one to three digits
IsIpLiteral(h) ==
    /\ \A k \in DOMAIN h : IsDigit(h[k]) \/ h[k] = "."
    /\ \E a, b, c \in DOMAIN h :
          /\ a < b /\ b < c
          /\ {k \in DOMAIN h : h[k] = "."} = {a, b, c}
          /\ a - 1 \in 1..3 /\ b - a - 1 \in 1..3
          /\ c - b - 1 \in 1..3 /\ Len(h) - c \in 1..3

\* The url with its scheme and the "//" removed
AfterScheme(url) ==
    LET sep == IF Contains(url, <<":", "/", "/">>)
               THEN SetMin({k \in DOMAIN url : StartsWith(Tail_(url, k), <<":", "/", "/">>)})
               ELSE 0
    IN  IF sep > 1 /\ \A k \in 1..(sep - 1) : url[k] \in SchemeChars
        THEN Tail_(url, sep + 3)
        ELSE IF StartsWith(url, <<"/", "/">>) THEN Tail_(url, 3) ELSE url

\* Up to the first of '/', '?', '#'
HostPort(s) == SubSeq(s, 1, FindAny(s, {"/", "?", "#"}, 1) - 1)

\* After the last '@'
NoCredentials(s) ==
    IF "@" \in Range(s)
    THEN Tail_(s, SetMax({k \in DOMAIN s : s[k] = "@"}) + 1)
    ELSE s

\* Up to the first ':'
NoPort(s) == SubSeq(s, 1, FindAny(s, {":"}, 1) - 1)

\* The host tldextract looks at: scheme, path, credentials and port removed
LenientNetloc(url) == NoPort(NoCredentials(HostPort(AfterScheme(url))))

\* The position of the last '.', 0 when there is none
LastDot(s) ==
    IF "." \in Range(s) THEN SetMax({k \in DOMAIN s : s[k] = "."}) ELSE 0

\* The host ends in a public suffix
HasSuffix(host) ==
    LastDot(host) > 0 /\ Lower(Tail_(host, LastDot(host) + 1)) \in PublicSuffixes

\* The registered part splits at its last '.' into subdomain and domain
SplitLabels(reg, suffix) ==
    [subdomain |-> SubSeq(reg, 1, LastDot(reg) - 1),
     domain |-> Tail_(reg, LastDot(reg) + 1),
     suffix |-> suffix]

SplitHost(host) ==
    IF IsIpLiteral(host)
    THEN [subdomain |-> <<>>, domain |-> host, suffix |-> <<>>]
    ELSE IF HasSuffix(host)
         THEN SplitLabels(SubSeq(host, 1, LastDot(host) - 1),
                          Tail_(host, LastDot(host) + 1))
         ELSE SplitLabels(host, <<>>)

TldExtract(url) == SplitHost(LenientNetloc(url))

\* ------------------------------------------------------------------------
\* Word and run statistics
\* ------------------------------------------------------------------------
\* WORD_PATTERN.findall(s): the start positions of the maximal runs of
\* letters and digits
WordStarts(s) ==
    {i \in DOMAIN s : IsAlnum(s[i]) /\ (i = 1 \/ ~IsAlnum(s[i - 1]))}

WordLen(s, i) ==
    SetMin({k \in i..(Len(s) + 1) : k = Len(s) + 1 \/ ~IsAlnum(s[k])}) - i

WordLens(s) == {<<i, WordLen(s, i)>> : i \in WordStarts(s)}

RECURSIVE SumLens(_)
SumLens(W) ==
    IF W = {} THEN 0
    ELSE LET w == CHOOSE x \in W : TRUE IN w[2] + SumLens(W \ {w})

MinWord(s) == IF WordLens(s) = {} THEN 0 ELSE SetMin({w[2] : w \in WordLens(s)})

MaxWord(s) == IF WordLens(s) = {} THEN 0 ELSE SetMax({w[2] : w \in WordLens(s)})

AvgWord(s) == Ratio(SumLens(WordLens(s)), Cardinality(WordLens(s)))

\* the longest run of one character
MaxRepeat(s) ==
    IF s = <<>> THEN 0
    ELSE SetMax({n \in 1..Len(s) :
            \E i \in 1..(Len(s) - n + 1) : \A k \in i..(i + n - 1) : s[k] = s[i]})

DigitCount(s) == Cardinality({i \in DOMAIN s : IsDigit(s[i])})

\* SUBDOMAIN_PATTERN.match: ^w+\d*$
IsWDigits(s) ==
    \E n \in 1..Len(s) :
        /\ \A k \in 1..n : s[k] = "w"
        /\ \A k \in (n + 1)..Len(s) : IsDigit(s[k])

RECURSIVE SumCounts(_, _)
SumCounts(s, words) ==
    IF words = {} THEN 0
    ELSE LET w == CHOOSE x \in words : TRUE
         IN  CountSub(s, w) + SumCounts(s, words \ {w})

ContainsAny(s, words) == \E w \in words : Contains(s, w)

ShorteningServices ==
    {<<"b", "i", "t", ".", "l", "y">>, <<"t", "i", "n", "y", "u", "r", "l", ".", "c", "o", "m">>, <<"g", "o", "o", ".", "g", "l">>, <<"o", "w", ".", "l", "y">>, <<"t", ".", "c", "o">>, <<"i", "s", ".", "g", "d">>,
     <<"b", "u", "f", "f", ".", "l", "y">>, <<"a", "d", "f", ".", "l", "y">>}

SuspiciousExts == {<<".", "e", "x", "e">>, <<".", "j", "s">>, <<".", "t", "x", "t">>}

SensitiveWords ==
    {<<"l", "o", "g", "i", "n">>, <<"s", "i", "g", "n", "i", "n">>, <<"v", "e", "r", "i", "f", "y">>, <<"a", "c", "c", "o", "u", "n", "t">>, <<"u", "p", "d", "a", "t", "e">>, <<"s", "e", "c", "u", "r", "e">>,
     <<"c", "o", "n", "f", "i", "r", "m">>, <<"b", "a", "n", "k">>, <<"p", "a", "y", "p", "a", "l">>, <<"e", "b", "a", "y">>, <<"a", "d", "m", "i", "n">>, <<"s", "e", "c", "u", "r", "i", "t", "y">>,
     <<"p", "a", "s", "s", "w", "o", "r", "d">>}

Brands ==
    {<<"g", "o", "o", "g", "l", "e">>, <<"f", "a", "c", "e", "b", "o", "o", "k">>, <<"a", "m", "a", "z", "o", "n">>, <<"p", "a", "y", "p", "a", "l">>, <<"a", "p", "p", "l", "e">>,
     <<"m", "i", "c", "r", "o", "s", "o", "f", "t">>, <<"e", "b", "a", "y">>}

SuspiciousTlds == {<<"t", "k">>, <<"m", "l">>, <<"g", "a">>, <<"c", "f">>, <<"g", "q">>}

\* ------------------------------------------------------------------------
\* extract_features.py
\* ------------------------------------------------------------------------
\* The feature order used during training
FEATURE_ORDER ==
    <<"f1_url_length", "f2_hostname_length", "f3_has_ip",
      "f4_dot", "f5_hyphen", "f6_at",
      "f7_question", "f8_ampersand", "f9_pipe",
      "f10_equal", "f11_underscore", "f12_tilde",
      "f13_percent", "f14_slash", "f15_asterisk",
      "f16_colon", "f17_comma", "f18_semicolon",
      "f19_dollar", "f20_space_or_%20", "f21_www_count",
      "f22_dotcom_count", "f23_http_count", "f24_double_slash_count",
      "f25_https", "f26_digit_ratio_url", "f27_digit_ratio_hostname",
      "f28_punycode", "f29_port", "f30_tld_in_path",
      "f31_tld_in_subdomain", "f32_abnormal_subdomain", "f33_subdomain_count",
      "f34_prefix_suffix", "f35_random_domain", "f36_shortening_service",
      "f37_suspicious_extension", "f38_redirection_count", "f39_external_redirections",
      "f40_word_count_url", "f41_max_char_repeat", "f42_shortest_word_length_url",
      "f43_word_count_hostname", "f44_word_count_path", "f45_longest_word_length_url",
      "f46_longest_word_length_hostname", "f47_longest_word_length_path", "f48_avg_word_length_url",
      "f49_avg_word_length_hostname", "f50_avg_word_length_path", "f51_phish_hints",
      "f52_brand_in_domain", "f53_brand_in_subdomain", "f54_brand_in_path",
      "f55_dns_record", "f56_suspicious_tld", "f57_qty_dot_domain",
      "f58_qty_hyphen_domain", "f59_qty_underscore_domain", "f60_qty_at_domain",
      "f61_qty_percent_domain", "f62_qty_dot_path", "f63_qty_hyphen_path",
      "f64_qty_slash_path", "f65_qty_question_path", "f66_qty_equal_path",
      "f67_qty_dot_query", "f68_qty_hyphen_query", "f69_qty_equal_query",
      "f70_qty_ampersand_query", "f71_qty_percent_query", "f72_length_domain",
      "f73_length_path", "f74_length_query", "f75_number_of_directories",
      "f76_number_of_query_params", "f77_presence_of_fragment", "f78_number_of_encoded_chars",
      "f79_presence_of_email", "f80_digit_ratio_domain", "f81_special_char_ratio_path",
      "f82_is_encoded", "f83_server_client_domain", "f84_tld_length">>

\* The dict extract_url_features fills, in insertion order.  It never sets
\* f55_dns_record.
FeatureDict(url, parsed, ext) ==
    LET hostname == parsed.netloc
        path == parsed.path
        query == parsed.query
        fragment == parsed.fragment
        subdomain == ext.subdomain
        tld == ext.suffix
        domain_main == ext.domain
        domain_full == parsed.netloc
        url_lower == Lower(url)
        domain_lower == Lower(domain_main)
        vowels == Cardinality({k \in DOMAIN domain_lower :
                                  domain_lower[k] \in {"a", "e", "i", "o", "u"}})
    IN  <<
         <<"f1_url_length", Len(url)>>,
         <<"f2_hostname_length", Len(hostname)>>,
         <<"f3_has_ip", Bit(IsIpLiteral(hostname))>>,
         <<"f4_dot", Count(url, ".")>>,
         <<"f5_hyphen", Count(url, "-")>>,
         <<"f6_at", Count(url, "@")>>,
         <<"f7_question", Count(url, "?")>>,
         <<"f8_ampersand", Count(url, "&")>>,
         <<"f9_pipe", Count(url, "|")>>,
         <<"f10_equal", Count(url, "=")>>,
         <<"f11_underscore", Count(url, "_")>>,
         <<"f12_tilde", Count(url, "~")>>,
         <<"f13_percent", Count(url, "%")>>,
         <<"f14_slash", Count(url, "/")>>,
         <<"f15_asterisk", Count(url, "*")>>,
         <<"f16_colon", Count(url, ":")>>,
         <<"f17_comma", Count(url, ",")>>,
         <<"f18_semicolon", Count(url, ";")>>,
         <<"f19_dollar", Count(url, "$")>>,
         <<"f20_space_or_%20", CountSub(url, <<"%", "2", "0">>) + Count(url, " ")>>,
         <<"f21_www_count", CountSub(url_lower, <<"w", "w", "w">>)>>,
         <<"f22_dotcom_count", CountSub(url_lower, <<".", "c", "o", "m">>)>>,
         <<"f23_http_count", CountSub(url_lower, <<"h", "t", "t", "p">>)>>,
         <<"f24_double_slash_count", CountSub(url, <<"/", "/">>)>>,
         <<"f25_https", Bit(Lower(parsed.scheme) = <<"h", "t", "t", "p", "s">>)>>,
         <<"f26_digit_ratio_url", Ratio(DigitCount(url), Len(url))>>,
         <<"f27_digit_ratio_hostname", Ratio(DigitCount(hostname), Len(hostname))>>,
         <<"f28_punycode", Bit(Contains(hostname, <<"x", "n", "-", "-">>))>>,
         <<"f29_port", Bit(PortValue(hostname) # 0)>>,
         <<"f30_tld_in_path", Bit(tld # <<>> /\ Contains(path, tld))>>,
         <<"f31_tld_in_subdomain", Bit(tld # <<>> /\ Contains(subdomain, tld))>>,
         <<"f32_abnormal_subdomain", Bit(subdomain # <<>> /\ Lower(subdomain) # <<"w", "w", "w">> /\ IsWDigits(subdomain))>>,
         <<"f33_subdomain_count", IF subdomain # <<>> THEN Count(subdomain, ".") + 1 ELSE 0>>,
         <<"f34_prefix_suffix", Bit("-" \in Range(domain_main))>>,
         <<"f35_random_domain", Bit(domain_main # <<>> /\ 10 * vowels < 3 * Len(domain_main))>>,
         <<"f36_shortening_service", Bit(Lower(hostname) \in ShorteningServices)>>,
         <<"f37_suspicious_extension", Bit(\E e \in SuspiciousExts : EndsWith(Lower(path), e))>>,
         <<"f38_redirection_count", -1>>,
         <<"f39_external_redirections", -1>>,
         <<"f40_word_count_url", Cardinality(WordLens(url))>>,
         <<"f41_max_char_repeat", MaxRepeat(url)>>,
         <<"f42_shortest_word_length_url", MinWord(url)>>,
         <<"f43_word_count_hostname", Cardinality(WordLens(hostname))>>,
         <<"f44_word_count_path", Cardinality(WordLens(path))>>,
         <<"f45_longest_word_length_url", MaxWord(url)>>,
         <<"f46_longest_word_length_hostname", MaxWord(hostname)>>,
         <<"f47_longest_word_length_path", MaxWord(path)>>,
         <<"f48_avg_word_length_url", AvgWord(url)>>,
         <<"f49_avg_word_length_hostname", AvgWord(hostname)>>,
         <<"f50_avg_word_length_path", AvgWord(path)>>,
         <<"f51_phish_hints", SumCounts(url_lower, SensitiveWords)>>,
         <<"f52_brand_in_domain", Bit(ContainsAny(domain_lower, Brands))>>,
         <<"f53_brand_in_subdomain", Bit(ContainsAny(Lower(subdomain), Brands))>>,
         <<"f54_brand_in_path", Bit(ContainsAny(Lower(path), Brands))>>,
         <<"f56_suspicious_tld", Bit(Lower(tld) \in SuspiciousTlds)>>,
         <<"f57_qty_dot_domain", Count(domain_full, ".")>>,
         <<"f58_qty_hyphen_domain", Count(domain_full, "-")>>,
         <<"f59_qty_underscore_domain", Count(domain_full, "_")>>,
         <<"f60_qty_at_domain", Count(domain_full, "@")>>,
         <<"f61_qty_percent_domain", Count(domain_full, "%")>>,
         <<"f62_qty_dot_path", Count(path, ".")>>,
         <<"f63_qty_hyphen_path", Count(path, "-")>>,
         <<"f64_qty_slash_path", Count(path, "/")>>,
         <<"f65_qty_question_path", Count(path, "?")>>,
         <<"f66_qty_equal_path", Count(path, "=")>>,
         <<"f67_qty_dot_query", Count(query, ".")>>,
         <<"f68_qty_hyphen_query", Count(query, "-")>>,
         <<"f69_qty_equal_query", Count(query, "=")>>,
         <<"f70_qty_ampersand_query", Count(query, "&")>>,
         <<"f71_qty_percent_query", Count(query, "%")>>,
         <<"f72_length_domain", Len(domain_full)>>,
         <<"f73_length_path", Len(path)>>,
         <<"f74_length_query", Len(query)>>,
         <<"f75_number_of_directories", IF path # <<>> /\ path # <<"/">> THEN Count(path, "/") ELSE 0>>,
         <<"f76_number_of_query_params", IF query # <<>> THEN Count(query, "&") + 1 ELSE 0>>,
         <<"f77_presence_of_fragment", Bit(fragment # <<>>)>>,
         <<"f78_number_of_encoded_chars", Count(url, "%")>>,
         <<"f79_presence_of_email", Bit(Contains(url_lower, <<"m", "a", "i", "l", "t", "o", ":">>))>>,
         <<"f80_digit_ratio_domain", Ratio(DigitCount(domain_full), Len(domain_full))>>,
         <<"f81_special_char_ratio_path", Ratio(Cardinality({k \in DOMAIN path : ~IsAlnum(path[k])}), Len(path))>>,
         <<"f82_is_encoded", Bit("%" \in Range(url))>>,
         <<"f83_server_client_domain", Bit(ContainsAny(domain_lower, {<<"s", "e", "r", "v", "e", "r">>, <<"c", "l", "i", "e", "n", "t">>}))>>,
         <<"f84_tld_length", Len(tld)>>
        >>

\* The keys of FEATURE_ORDER
FeatureNames == Range(FEATURE_ORDER)

\* A dict: its keys in insertion order, and the value at each key
EmptyDict == [keys |-> <<>>, at |-> <<>>]

\* The dict a sequence of assignments d[key] = value to distinct keys builds
DictOf(pairs) ==
    [keys |-> [i \in DOMAIN pairs |-> pairs[i][1]],
     at |-> [k \in {pairs[i][1] : i \in DOMAIN pairs} |->
                pairs[CHOOSE i \in DOMAIN pairs : pairs[i][1] = k][2]]]

\* dict: key in d
HasKey(d, key) == key \in DOMAIN d.at

\* dict.get(key, default)
DictGet(d, key, default) == IF HasKey(d, key) THEN d.at[key] ELSE default

\* d[key] = value: an existing key keeps its position, a new one goes last
DictSet(d, key, value) ==
    IF HasKey(d, key)
    THEN [keys |-> d.keys, at |-> [d.at EXCEPT ![key] = value]]
    ELSE [keys |-> Append(d.keys, key),
          at |-> [k \in DOMAIN d.at \cup {key} |->
                     IF k = key THEN value ELSE d.at[k]]]

\* list(d.keys())
Keys(d) == d.keys

\* OrderedDict((key, features.get(key, -1)) for key in FEATURE_ORDER)
AssembleDropMissing(features) ==
    [keys |-> SelectSeq(FEATURE_ORDER, LAMBDA k : HasKey(features, k)),
     at |-> [k \in {x \in FeatureNames : HasKey(features, x)} |->
                features.at[k]]]

Assemble(features) ==
    [keys |-> FEATURE_ORDER,
     at |-> [k \in FeatureNames |-> DictGet(features, k, -1)]]

\* parsed = urlparse(url) and ext = tldextract.extract(url), then the dict
RawFeatures(url) == DictOf(FeatureDict(url, UrlParse(url), TldExtract(url)))

\* extract_url_features raises ValueError: from urlparse(url), or from
\* parsed.port
ExtractRaises(url) ==
    UrlParse(url).raises \/ PortRaises(UrlParse(url).netloc)

\* What a call returns: the exception, or the ordered vector
Raised == [raised |-> TRUE, vec |-> EmptyDict]

Returned(v) == [raised |-> FALSE, vec |-> v]

extract_url_features(url) ==
    IF ExtractRaises(url) THEN Raised ELSE Returned(Assemble(RawFeatures(url)))

\* fetch_redirects(session, url).  A fetch is what session.get does: it
\* fails (timeout, connection, DNS, TLS, invalid URL), or it answers with
\* the netlocs of the intermediate responses.  str_urls tells whether the
\* HTTP client hands out the URLs of those responses as str: urlparse raises
\* on an object that is not a str, inside the try block.
FetchFailed == [ok |-> FALSE, history |-> <<>>]

ExternalRedirects(url, history) ==
    Cardinality({k \in DOMAIN history :
                    Lower(history[k]) # Lower(UrlParse(url).netloc)})

fetch_redirects_unpaired(url, fetch, str_urls) ==
    IF \/ ~fetch.ok
       \/ UrlParse(url).raises
       \/ (fetch.history # <<>> /\ ~str_urls)
    THEN <<-1, 0>>
    ELSE <<Len(fetch.history), ExternalRedirects(url, fetch.history)>>

fetch_redirects(url, fetch, str_urls) ==
    IF \/ ~fetch.ok
       \/ UrlParse(url).raises
       \/ (fetch.history # <<>> /\ ~str_urls)
    THEN <<-1, -1>>
    ELSE <<Len(fetch.history), ExternalRedirects(url, fetch.history)>>

\* The part of extract_all_features after the await: patch the two
\* redirect features and the DNS flag into the ordered vector, reorder
extract_all_features(features, redirects, dns) ==
    Assemble(DictSet(DictSet(DictSet(features,
        "f38_redirection_count", redirects[1]),
        "f39_external_redirections", redirects[2]),
        "f55_dns_record", dns))

\* ------------------------------------------------------------------------
\* Inputs
\* ------------------------------------------------------------------------
SeqsUpTo(S, n) == UNION {[1..k -> S] : k \in 0..n}

Prefixes == {<<>>, <<"h", "t", "t", "p", ":", "/", "/">>, <<"h", "t", "t", "p", "s", ":", "/", "/">>}

TailAlphabet == {"a", "1", ":", "/", "[", "@"}

ExtraUrls ==
    {<<"h", "t", "t", "p", ":", "/", "/", "a", ":", "9", "9", "9", "9", "9", "/">>, <<"h", "t", "t", "p", ":", "/", "/", "u", ":", "p", "@", "a", ":", "8", "0", "/", "x">>, <<"H", "T", "T", "P", ":", "/", "/", "A", "/">>, <<"/", "/", "a", ":", "b">>,
     <<"h", "t", "t", "p", ":", "/", "/", "a", ".", "t", "k", "/", "l", "o", "g", "i", "n", ".", "e", "x", "e", "?", "x", "=", "1", "&", "y", "=", "2", "#", "f">>, <<"h", "t", "t", "p", ":", "/", "/", "1", "9", "2", ".", "1", "6", "8", ".", "0", ".", "1", "/", "a", "/", "b">>}

\* URLs for a call on one URL
UrlInputs ==
    {p \o t : p \in Prefixes, t \in SeqsUpTo(TailAlphabet, MaxTail)}
        \cup ExtraUrls

\* URLs for a batch
BatchUrls == {<<"h", "t", "t", "p", ":", "/", "/", "a", "/">>, <<"h", "t", "t", "p", "s", ":", "/", "/", "b">>, <<"h", "t", "t", "p", ":", "/", "/", "a", ":", "b", "/">>}

HistNetlocs == {<<"A">>, <<"b">>}

FetchOutcomes ==
    {FetchFailed}
        \cup {[ok |-> TRUE, history |-> h] : h \in SeqsUpTo(HistNetlocs, MaxHist)}

\* extract_url_features over the inputs, computed once and held as an
\* explicit table
SyncTable == [u \in UrlInputs \cup BatchUrls |-> extract_url_features(u)] @@ <<>>

\* ------------------------------------------------------------------------
\* State
\* ------------------------------------------------------------------------
VARIABLES
    urls,        \* process_urls: the argument
    batch,       \* process_urls: "idle", "running", "returned", "raised"
    pc,          \* per task: "pending", "fetching", "done", "raised"
    vec,         \* per task: its features dict
    net,         \* per task: what its fetch and its DNS lookup gave
    attempts,    \* per task: number of session.get calls issued
    finished,    \* the tasks in the order they finished
    result,      \* process_urls: the returned list
    dns_cache,   \* lru_cache of cached_gethostbyname: <<hostname, value>>
    url_is_str,  \* whether the HTTP client's response URLs are str
    sync_ret,    \* the last plain call of extract_url_features
    results_data,\* app.py: the in-memory log, (URL, Prediction, Probability)
    csv,         \* the file OUTPUT_CSV: whether it exists, and its rows
    rpc,         \* per request thread: where its handler stands
    req,         \* per request thread: the request it serves
    loc,         \* per request thread: the handler's local variables
    resp,        \* the last response sent, with its request
    scaler_fits, \* whether the loaded scaler was fitted on FEATURE_ORDER
    reqs,        \* number of requests received so far
    restarts     \* number of times the process was started again

featVars ==
    <<urls, batch, pc, vec, net, attempts, finished, result, dns_cache,
      url_is_str, sync_ret>>

appVars ==
    <<results_data, csv, rpc, req, loc, resp, scaler_fits, reqs, restarts>>

vars == <<featVars, appVars>>

Tasks == DOMAIN urls

NoNet == [fetch |-> FetchFailed, dns |-> -1]

NoCall == [called |-> FALSE, url |-> <<>>, ret |-> Raised]

\* ------------------------------------------------------------------------
\* app.py: values
\* ------------------------------------------------------------------------
\* The development server of app.run serves every request in a thread of
\* its own
Threads == 1..MaxReq

\* A value that is a str, and one that is not (None in a JSON body, NaN in
\* a column of the uploaded table)
Str(s) == [isstr |-> TRUE, text |-> s]

NotStr == [isstr |-> FALSE, text |-> <<>>]

\* request.files['file']: not sent, sent without a name, not readable as
\* CSV, readable without a URL column, or a table with a URL column
NoFile == [kind |-> "absent", rows |-> <<>>]

\* A request as the handler and its response keep it: the route, the URL of
\* /predict, the kind and the number of rows of the file of /predict_batch
NoReq == [route |-> "none", url |-> NotStr, kind |-> "absent", nrows |-> 0]

NoLoc == [result |-> "", prob |-> 0, batch_results |-> <<>>, df |-> <<>>]

NoResp == [req |-> NoReq, status |-> 0, prediction |-> "", probability |-> 0,
           processed |-> 0]

AppStart ==
    /\ results_data = <<>>
    /\ rpc = [t \in Threads |-> "idle"]
    /\ req = [t \in Threads |-> NoReq]
    /\ loc = [t \in Threads |-> NoLoc]
    /\ resp = NoResp

InitApp ==
    /\ AppStart
    /\ csv = [exists |-> FALSE, rows |-> <<>>]
    /\ scaler_fits \in BOOLEAN
    /\ reqs = 0
    /\ restarts = 0

InitFeat ==
    /\ urls \in {<<u>> : u \in UrlInputs} \cup SeqsUpTo(BatchUrls, MaxUrls)
    /\ batch = "idle"
    /\ pc = [i \in Tasks |-> "pending"]
    /\ vec = [i \in Tasks |-> EmptyDict]
    /\ net = [i \in Tasks |-> NoNet]
    /\ attempts = [i \in Tasks |-> 0]
    /\ finished = <<>>
    /\ result = <<>>
    /\ dns_cache = {}
    /\ url_is_str \in BOOLEAN
    /\ sync_ret = NoCall
    /\ InitApp
    /\ scaler_fits

\* extract_url_features(urls[i]) called on its own, as app.py calls it: the
\* runs on one URL make this call
SyncCall(i) ==
    /\ batch = "idle"
    /\ Len(urls) = 1
    /\ sync_ret' = [called |-> TRUE, url |-> urls[i],
                    ret |-> SyncTable[urls[i]]]
    /\ UNCHANGED <<urls, batch, pc, vec, net, attempts, finished, result,
                   dns_cache, url_is_str, appVars>>

\* process_urls(urls): open the session, create one task per URL, gather
ProcessUrls ==
    /\ batch = "idle"
    /\ batch' = "running"
    /\ UNCHANGED <<urls, pc, vec, net, attempts, finished, result, dns_cache,
                   url_is_str, sync_ret, appVars>>

\* Task i runs up to its first await: extract_url_features, then the GET.
\* The event loop starts the tasks in the order gather received them.
TaskStart(i) ==
    /\ batch = "running"
    /\ pc[i] = "pending"
    /\ \A j \in 1..(i - 1) : pc[j] # "pending"
    /\ IF SyncTable[urls[i]].raised
       THEN /\ pc' = [pc EXCEPT ![i] = "raised"]
            /\ UNCHANGED <<vec, attempts>>
       ELSE /\ pc' = [pc EXCEPT ![i] = "fetching"]
            /\ vec' = [vec EXCEPT ![i] = SyncTable[urls[i]].vec]
            /\ attempts' = [attempts EXCEPT ![i] = @ + 1]
    /\ UNCHANGED <<urls, batch, net, finished, result, dns_cache, url_is_str, sync_ret, appVars>>

\* cached_gethostbyname(hostname): the cached value, or a lookup
DnsValues(hostname) ==
    IF \E e \in dns_cache : e[1] = hostname
    THEN {e[2] : e \in {x \in dns_cache : x[1] = hostname}}
    ELSE {0, 1}

\* The fetch of task i ends; the task runs to its return without another
\* await
TaskFinish(i, fetch, dns) ==
    /\ batch = "running"
    /\ pc[i] = "fetching"
    /\ dns \in DnsValues(UrlParse(urls[i]).netloc)
    /\ dns_cache' = dns_cache \cup {<<UrlParse(urls[i]).netloc, dns>>}
    /\ net' = [net EXCEPT ![i] = [fetch |-> fetch, dns |-> dns]]
    /\ vec' = [vec EXCEPT ![i] =
                  extract_all_features(vec[i],
                      fetch_redirects(urls[i], fetch, url_is_str), dns)]
    /\ pc' = [pc EXCEPT ![i] = "done"]
    /\ finished' = Append(finished, i)
    /\ UNCHANGED <<urls, batch, attempts, result, url_is_str, sync_ret, appVars>>

\* asyncio.gather: the results of the children, in the order of the
\* children
GatherInFinishOrder == [k \in DOMAIN finished |-> vec[finished[k]]]

GatherResults == [k \in Tasks |-> vec[k]]

GatherReturn ==
    /\ batch = "running"
    /\ \A i \in Tasks : pc[i] = "done"
    /\ result' = GatherResults
    /\ batch' = "returned"
    /\ UNCHANGED <<urls, pc, vec, net, attempts, finished, dns_cache, url_is_str, sync_ret, appVars>>

\* asyncio.gather without return_exceptions: the first exception of a child
\* goes to the caller of process_urls
GatherRaise ==
    /\ batch = "running"
    /\ \E i \in Tasks : pc[i] = "raised"
    /\ batch' = "raised"
    /\ UNCHANGED <<urls, pc, vec, net, attempts, finished, result, dns_cache,
                   url_is_str, sync_ret, appVars>>

NextFeat ==
    \/ \E i \in Tasks : SyncCall(i)
    \/ ProcessUrls
    \/ \E i \in Tasks : TaskStart(i)
    \/ \E i \in Tasks, fetch \in FetchOutcomes, dns \in {0, 1} :
          TaskFinish(i, fetch, dns)
    \/ GatherReturn
    \/ GatherRaise

SpecFeat == InitFeat /\ [][NextFeat]_vars

\* ------------------------------------------------------------------------
\* app.py: the request handlers.  The handlers of concurrent requests run
\* in threads of one process; a handler is split where it reads or writes
\* results_data or the file.
\* ------------------------------------------------------------------------
\* Probabilities in hundredths; 0.5 is the threshold of line 53 and 90
Threshold == 50

Probs == {Threshold, Threshold + 1}

LabelAtLeast(prob) == IF prob >= Threshold THEN "phishing" ELSE "benign"

\* 'phishing' if prediction_prob > 0.5 else 'benign'
Label(prob) == IF prob > Threshold THEN "phishing" ELSE "benign"

\* url.startswith("http://") or url.startswith("https://")
HasHttpPrefix(s) == StartsWith(s, <<"h", "t", "t", "p", ":", "/", "/">>) \/ StartsWith(s, <<"h", "t", "t", "p", "s", ":", "/", "/">>)

PredictInputs ==
    {NotStr, Str(<<"a", ".", "c", "o", "m">>), Str(<<"h", "t", "t", "p", ":", "/", "/", "a", "/">>), Str(<<"h", "t", "t", "p", ":", "/", "/", "a", ":", "b", "/">>)}

\* The URL columns of the uploaded tables: no row, a row that is not a str
\* before a URL, and a URL before one whose extraction raises
Tables ==
    {<<>>,
     <<NotStr, Str(<<"h", "t", "t", "p", ":", "/", "/", "a", "/">>)>>,
     <<Str(<<"h", "t", "t", "p", ":", "/", "/", "a", "/">>), Str(<<"h", "t", "t", "p", ":", "/", "/", "a", ":", "b", "/">>)>>}

\* The cells of those columns
Cells == UNION {Range(r) : r \in Tables}

\* The URLs among the inputs on which extract_url_features raises
RaisingUrls ==
    {u \in {c.text : c \in {x \in PredictInputs \cup Cells : x.isstr}} :
        ExtractRaises(u)}

FileInputs ==
    {NoFile, [kind |-> "noname", rows |-> <<>>],
     [kind |-> "unreadable", rows |-> <<>>],
     [kind |-> "nocolumn", rows |-> <<>>]}
        \cup {[kind |-> "table", rows |-> r] : r \in Tables}

\* scaler.transform raises ValueError when the columns of the vector are not
\* the columns the scaler was fitted on.  Every vector has the FEATURE_ORDER
\* columns, so the loaded scaler accepts all of them or none.
ScalerRejects == ~scaler_fits

\* A response, with the request it answers
Respond(request, status) == [NoResp EXCEPT !.req = request, !.status = status]

PredictReq(url) == [NoReq EXCEPT !.route = "predict", !.url = url]

BatchReq(file) ==
    [NoReq EXCEPT !.route = "batch", !.kind = file.kind, !.nrows = Len(file.rows)]

\* A request is served by the first thread that is free
Idle(t) ==
    /\ rpc[t] = "idle"
    /\ \A u \in Threads : u < t => rpc[u] # "idle"
    /\ reqs < MaxReq

\* predict, lines 30 to 53
PredictLogsScalingError(t, url, prob) ==
    /\ Idle(t)
    /\ reqs' = reqs + 1
    /\ IF ~url.isstr \/ url.text = <<>>
       THEN /\ resp' = Respond(PredictReq(url), 400)
            /\ UNCHANGED <<rpc, req, loc, results_data>>
       ELSE IF ~HasHttpPrefix(url.text)
       THEN /\ resp' = Respond(PredictReq(url), 400)
            /\ UNCHANGED <<rpc, req, loc, results_data>>
       ELSE IF url.text \in RaisingUrls
       THEN /\ resp' = Respond(PredictReq(url), 500)
            /\ UNCHANGED <<rpc, req, loc, results_data>>
       ELSE IF ScalerRejects
       THEN /\ resp' = Respond(PredictReq(url), 500)
            /\ results_data' = Append(results_data, <<url, "scaling error", 0>>)
            /\ UNCHANGED <<rpc, req, loc>>
       ELSE /\ req' = [req EXCEPT ![t] = PredictReq(url)]
            /\ loc' = [loc EXCEPT ![t] = [NoLoc EXCEPT
                          !.result = Label(prob), !.prob = prob]]
            /\ rpc' = [rpc EXCEPT ![t] = "append"]
            /\ UNCHANGED <<resp, results_data>>
    /\ UNCHANGED <<csv, restarts, scaler_fits, featVars>>

Predict(t, url, prob) ==
    /\ Idle(t)
    /\ reqs' = reqs + 1
    /\ IF ~url.isstr \/ url.text = <<>>
       THEN /\ resp' = Respond(PredictReq(url), 400)
            /\ UNCHANGED <<rpc, req, loc>>
       ELSE IF ~HasHttpPrefix(url.text)
       THEN /\ resp' = Respond(PredictReq(url), 400)
            /\ UNCHANGED <<rpc, req, loc>>
       ELSE IF url.text \in RaisingUrls
       THEN \* the ValueError leaves the handler: Flask answers 500
            /\ resp' = Respond(PredictReq(url), 500)
            /\ UNCHANGED <<rpc, req, loc>>
       ELSE IF ScalerRejects
       THEN /\ resp' = Respond(PredictReq(url), 500)
            /\ UNCHANGED <<rpc, req, loc>>
       ELSE /\ req' = [req EXCEPT ![t] = PredictReq(url)]
            /\ loc' = [loc EXCEPT ![t] = [NoLoc EXCEPT
                          !.result = Label(prob), !.prob = prob]]
            /\ rpc' = [rpc EXCEPT ![t] = "append"]
            /\ UNCHANGED resp
    /\ UNCHANGED <<results_data, csv, restarts, scaler_fits, featVars>>

\* predict, line 55
PredictAppend(t) ==
    /\ rpc[t] = "append"
    /\ results_data' =
          Append(results_data, <<req[t].url, loc[t].result, loc[t].prob>>)
    /\ rpc' = [rpc EXCEPT ![t] = "frame"]
    /\ UNCHANGED <<csv, req, loc, resp, reqs, restarts, scaler_fits, featVars>>

\* update_output_csv, line 21: the DataFrame copies results_data
Frame(t) ==
    /\ rpc[t] = "frame"
    /\ loc' = [loc EXCEPT ![t].df = results_data]
    /\ rpc' = [rpc EXCEPT ![t] = "write"]
    /\ UNCHANGED <<results_data, csv, req, resp, reqs, restarts, scaler_fits, featVars>>

\* update_output_csv, line 22, and the return of the handler
Write(t) ==
    /\ rpc[t] = "write"
    /\ csv' = [exists |-> TRUE, rows |-> loc[t].df]
    /\ resp' = IF req[t].route = "predict"
               THEN [Respond(req[t], 200) EXCEPT
                        !.prediction = loc[t].result,
                        !.probability = loc[t].prob]
               ELSE [Respond(req[t], 200) EXCEPT
                        !.processed = Len(loc[t].batch_results)]
    /\ rpc' = [rpc EXCEPT ![t] = "idle"]
    /\ req' = [req EXCEPT ![t] = NoReq]
    /\ loc' = [loc EXCEPT ![t] = NoLoc]
    /\ UNCHANGED <<results_data, reqs, restarts, scaler_fits, featVars>>

\* predict_batch, lines 75 to 91: the record of one row
RowIsValid(cell) == cell.isstr /\ HasHttpPrefix(cell.text)

RowRecord(cell, prob) ==
    IF ~RowIsValid(cell) THEN <<cell, "invalid URL", 0>>
    ELSE IF ScalerRejects THEN <<cell, "scaling error", 0>>
    ELSE <<cell, Label(prob), prob>>

\* predict_batch, line 78: the row whose extraction raises
RowRaises(cell) == RowIsValid(cell) /\ cell.text \in RaisingUrls

\* What model.predict may answer for the rows of a file: one probability
\* for each row that reaches the model
RowProbs(file) ==
    IF ScalerRejects \/ \E k \in DOMAIN file.rows : RowRaises(file.rows[k])
    THEN {[k \in DOMAIN file.rows |-> 0]}
    ELSE {p \in [DOMAIN file.rows -> Probs \cup {0}] :
            \A k \in DOMAIN file.rows : (p[k] = 0) = ~RowIsValid(file.rows[k])}

\* predict_batch, lines 62 to 91
PredictBatch(t, file, probs) ==
    /\ Idle(t)
    /\ reqs' = reqs + 1
    /\ IF file.kind \in {"absent", "noname", "nocolumn"}
       THEN /\ resp' = Respond(BatchReq(file), 400)
            /\ UNCHANGED <<rpc, req, loc>>
       ELSE IF file.kind = "unreadable"
               \/ \E k \in DOMAIN file.rows : RowRaises(file.rows[k])
       THEN \* except Exception: the rows gathered so far are dropped
            /\ resp' = Respond(BatchReq(file), 500)
            /\ UNCHANGED <<rpc, req, loc>>
       ELSE /\ req' = [req EXCEPT ![t] = BatchReq(file)]
            /\ loc' = [loc EXCEPT ![t] = [NoLoc EXCEPT !.batch_results =
                          [k \in DOMAIN file.rows |->
                              RowRecord(file.rows[k], probs[k])]]]
            /\ rpc' = [rpc EXCEPT ![t] = "extend"]
            /\ UNCHANGED resp
    /\ UNCHANGED <<results_data, csv, restarts, scaler_fits, featVars>>

\* predict_batch, line 93
BatchExtend(t) ==
    /\ rpc[t] = "extend"
    /\ results_data' = results_data \o loc[t].batch_results
    /\ rpc' = [rpc EXCEPT ![t] = "frame"]
    /\ UNCHANGED <<csv, req, loc, resp, reqs, restarts, scaler_fits, featVars>>

\* download_output, line 103
Download(t) ==
    /\ Idle(t)
    /\ reqs' = reqs + 1
    /\ IF csv.exists
       THEN /\ resp' = Respond([NoReq EXCEPT !.route = "download"], 200)
            /\ UNCHANGED <<rpc, req>>
       ELSE /\ req' = [req EXCEPT ![t] = [NoReq EXCEPT !.route = "download"]]
            /\ rpc' = [rpc EXCEPT ![t] = "create"]
            /\ UNCHANGED resp
    /\ UNCHANGED <<results_data, csv, loc, restarts, scaler_fits, featVars>>

\* download_output, lines 106 to 108
DownloadCreate(t) ==
    /\ rpc[t] = "create"
    /\ csv' = [exists |-> TRUE, rows |-> <<>>]
    /\ resp' = Respond(req[t], 200)
    /\ rpc' = [rpc EXCEPT ![t] = "idle"]
    /\ req' = [req EXCEPT ![t] = NoReq]
    /\ UNCHANGED <<results_data, loc, reqs, restarts, scaler_fits, featVars>>

\* The process ends and is started again: line 16 runs, the file stays
Restart ==
    /\ restarts < MaxRestarts
    /\ restarts' = restarts + 1
    /\ results_data' = <<>>
    /\ rpc' = [t \in Threads |-> "idle"]
    /\ req' = [t \in Threads |-> NoReq]
    /\ loc' = [t \in Threads |-> NoLoc]
    /\ resp' = NoResp
    /\ UNCHANGED <<csv, reqs, scaler_fits, featVars>>

\* /predict and /predict_batch requests in one process
NextServe ==
    \/ \E t \in Threads, url \in PredictInputs, prob \in Probs :
          Predict(t, url, prob)
    \/ \E t \in Threads : PredictAppend(t)
    \/ \E t \in Threads : Frame(t)
    \/ \E t \in Threads : Write(t)
    \/ \E t \in Threads, file \in FileInputs :
          \E probs \in RowProbs(file) : PredictBatch(t, file, probs)
    \/ \E t \in Threads : BatchExtend(t)

NextApp ==
    \/ NextServe
    \/ \E t \in Threads : Download(t)
    \/ \E t \in Threads : DownloadCreate(t)
    \/ Restart

InitServe ==
    /\ InitApp
    /\ urls = <<>>
    /\ batch = "idle"
    /\ pc = <<>>
    /\ vec = <<>>
    /\ net = <<>>
    /\ attempts = <<>>
    /\ finished = <<>>
    /\ result = <<>>
    /\ dns_cache = {}
    /\ url_is_str = TRUE
    /\ sync_ret = NoCall

SpecServe == InitServe /\ [][NextServe]_vars

SpecApp == InitServe /\ [][NextApp]_vars

\* ------------------------------------------------------------------------
\* Properties
\* ------------------------------------------------------------------------
HasSchema(v) ==
    /\ Len(Keys(v)) = 84
    /\ Keys(v) = FEATURE_ORDER
    /\ DOMAIN v.at = FeatureNames

RedirectPair(v) ==
    <<DictGet(v, "f38_redirection_count", 0),
      DictGet(v, "f39_external_redirections", 0)>>

PairOk(p) == p = <<-1, -1>> \/ (p[1] >= 0 /\ p[2] >= 0 /\ p[2] <= p[1])

SyncReturned == sync_ret.called /\ ~sync_ret.ret.raised

IsPrefix(a, b) == Len(a) <= Len(b) /\ SubSeq(b, 1, Len(a)) = a

\* C1: every vector extract_url_features or extract_all_features returns
\* has exactly the 84 keys of FEATURE_ORDER, in that order; on the
\* synchronous path f55_dns_record, which that path never computes, is -1.
C1_Schema ==
    /\ SyncReturned =>
          /\ HasSchema(sync_ret.ret.vec)
          /\ DictGet(sync_ret.ret.vec, "f55_dns_record", 0) = -1
    /\ \A i \in Tasks : pc[i] = "done" => HasSchema(vec[i])
    /\ batch = "returned" => \A k \in DOMAIN result : HasSchema(result[k])

\* C1 witness: both paths have returned a vector for the empty string
C1_Witness ==
    /\ SyncReturned
    /\ sync_ret.url = <<>>
    /\ batch = "returned"
    /\ Len(result) = 1

\* C2: extract_url_features never raises, whatever the URL string
C2_Total == sync_ret.called => ~sync_ret.ret.raised

\* C3: f38 and f39 are both -1 or both non-negative with f39 <= f38; they
\* are both -1 when only the synchronous extractor ran and when the fetch
\* failed; a fetch is issued once per URL and never again.
C3_RedirectPair ==
    /\ SyncReturned => RedirectPair(sync_ret.ret.vec) = <<-1, -1>>
    /\ \A i \in Tasks :
          /\ attempts[i] <= 1
          /\ pc[i] = "fetching" => RedirectPair(vec[i]) = <<-1, -1>>
          /\ pc[i] = "done" =>
                /\ attempts[i] = 1
                /\ PairOk(RedirectPair(vec[i]))
                /\ ~net[i].fetch.ok => RedirectPair(vec[i]) = <<-1, -1>>
    /\ batch = "returned" =>
          \A k \in DOMAIN result : PairOk(RedirectPair(result[k]))

\* C3 witness: one task whose fetch failed, another with one redirect that
\* stayed on the host
C3_Witness ==
    \E i, j \in Tasks :
        /\ pc[i] = "done" /\ ~net[i].fetch.ok
        /\ pc[j] = "done" /\ RedirectPair(vec[j]) = <<1, 0>>

\* C4: process_urls returns one vector per URL, the i-th being the vector of
\* the i-th URL, whatever the order in which the fetches end.
C4_Order ==
    batch = "returned" =>
        /\ Len(result) = Len(urls)
        /\ \A i \in Tasks :
              result[i] = extract_all_features(
                              SyncTable[urls[i]].vec,
                              fetch_redirects(urls[i], net[i].fetch, url_is_str),
                              net[i].dns)

\* C4 witness: two URLs with different vectors, the second finished first
C4_Witness ==
    /\ batch = "returned"
    /\ finished = <<2, 1>>
    /\ result[1] # result[2]

\* C5: a failure on one URL never aborts process_urls: the call returns one
\* vector per URL, the failing URL's vector has -1 in its redirect features.
C5_Isolation ==
    /\ batch # "raised"
    /\ batch = "returned" =>
          /\ Len(result) = Len(urls)
          /\ \A i \in Tasks :
                ~net[i].fetch.ok => RedirectPair(result[i]) = <<-1, -1>>

\* C6: the append and the rewrite of the file are a critical section: once
\* every concurrent /predict and /predict_batch request has finished, the
\* file holds exactly the records of the in-memory log.
C6_Exclusive ==
    (\A t \in Threads : rpc[t] = "idle") =>
        /\ csv.exists => csv.rows = results_data
        /\ results_data # <<>> => csv.exists

\* C7: the file is append-only across requests and restarts: a record once
\* in the file stays in it, in its position, later records come after it.
C7_AppendOnly ==
    [][csv.exists => (csv'.exists /\ IsPrefix(csv.rows, csv'.rows))]_vars

\* C8: /predict_batch on a file with a URL column of N rows handles every
\* row and answers processed = N.
C8_EveryRow ==
    (resp.req.route = "batch" /\ resp.req.kind = "table") =>
        /\ resp.status = 200
        /\ resp.processed = resp.req.nrows

\* C9: a request answered with an error (400 or 500) leaves the in-memory
\* log and the file as they were.
C9_NoLogOnError ==
    [][(reqs' = reqs + 1 /\ rpc' = rpc /\ resp'.status \in {400, 500})
          => UNCHANGED <<results_data, csv>>]_vars

\* C9 witness: a batch of two rows answered with 500 while the log and the
\* file hold an earlier record
C9_Witness ==
    /\ resp.status = 500
    /\ resp.req.route = "batch"
    /\ resp.req.kind = "table"
    /\ resp.req.nrows = 2
    /\ results_data # <<>>
    /\ csv.exists
    /\ csv.rows = results_data

\* C10: the label is "phishing" exactly when the probability is above 0.5,
\* "benign" otherwise (0.5 included); /predict returns the label it logs.
C10_Threshold ==
    /\ \A k \in DOMAIN results_data :
          results_data[k][2] \in {"phishing", "benign"} =>
              ((results_data[k][2] = "phishing") <=> (results_data[k][3] > Threshold))
    /\ (resp.status = 200 /\ resp.req.route = "predict") =>
          /\ resp.prediction \in {"phishing", "benign"}
          /\ (resp.prediction = "phishing") <=> (resp.probability > Threshold)
          /\ \E k \in DOMAIN results_data :
                results_data[k] = <<resp.req.url, resp.prediction, resp.probability>>

\* C10 witness: /predict answered "benign" for a probability of exactly 0.5,
\* with a "phishing" record in the log
C10_Witness ==
    /\ resp.status = 200
    /\ resp.req.route = "predict"
    /\ resp.probability = Threshold
    /\ resp.prediction = "benign"
    /\ \E k \in DOMAIN results_data : results_data[k][2] = "phishing"

=============================================================================
